---- MODULE Spec2Model ----
(***************************************************************************)
(* Model of EventQueue (src/src/core/queue/event-queue.ts): the pending    *)
(* buffer, the self re-arming flush timer guarded by the `flushing` flag,  *)
(* the flush loop and the staged pipeline run by flushOne.                 *)
(*                                                                         *)
(* The program runs on a single-threaded cooperative scheduler, so each    *)
(* action is one run-to-suspension piece of a handler: from the point it   *)
(* is entered (a call, a timer firing, the completion of an awaited plugin *)
(* call) to its next await on a plugin or to its end.                      *)
(***************************************************************************)
EXTENDS Integers, Sequences, FiniteSets, TLC

\* ------------------------------------------------------------ bounds
MaxEvents == 2      \* events ever dispatched
MaxPlugins == 2     \* plugins in config.extensions (init + register)
MaxDirect == 1      \* direct flush() calls in flight at once
MaxPipeline == 3    \* plugins given to init in PipelineSpec
MaxDeliveries == 2  \* deliveries of one event to one destination that are counted

Events == 1..MaxEvents
\* one slot per flush() call that can be in flight: each timer-driven call
\* comes from a timer armed by a distinct dispatch or by the end of an
\* earlier timer-driven call, so there are at most MaxEvents of them.
Slots == 1..(MaxEvents + MaxDirect)
Types == {"before", "enrichment", "destination"}

VARIABLES
  queue,        \* this.queue: pending Contexts, oldest first
  archive,      \* this.archive
  flushing,     \* this.flushing
  extensions,   \* this.config.extensions: [type, ok, load]
  timers,       \* number of setTimeout callbacks armed and not yet fired
  pass,         \* the flush() calls in flight, per slot
  sealed,       \* the Contexts on which seal() has been called
  dispatchRet,  \* value the last dispatch() call resolved with (0: none)
  dispatched,   \* history: the Contexts given to dispatch, in call order
  popped,       \* history: <<event, origin>> for every queue.shift()
  returned,     \* history: how often each Context was in a list flush() returned
  received,     \* history: <<event, destination, n>>, the destination was
                \* handed the event an n-th time (n up to MaxDeliveries)
  registerErr,  \* the plugins whose register() call rejected
  raced         \* history: two flush() calls have been in flight at once

vars == <<queue, archive, flushing, extensions, timers, pass, sealed,
          dispatchRet, dispatched, popped, returned, received, registerErr,
          raced>>

\* ------------------------------------------------------------ plugins
\* An Extension: its stage tag, whether its process hook succeeds, and the
\* state of its load ("pending": load() called and not settled).
Plugin(t, ok, l) == [type |-> t, ok |-> ok, load |-> l]

isLoaded(p) == p.load = "loaded"

\* all sequences over S of length at most n
RECURSIVE SeqsUpTo(_, _)
SeqsUpTo(S, n) ==
  IF n = 0 THEN {<<>>}
  ELSE LET shorter == SeqsUpTo(S, n - 1)
       IN shorter \cup {Append(s, x) : s \in {t \in shorter : Len(t) = n - 1}, x \in S}

\* EventQueue.init resolves only when every configured extension's load
\* has resolved.
InitConfigs(n) ==
  SeqsUpTo({Plugin(t, ok, "loaded") : t \in Types, ok \in BOOLEAN}, n)

\* delivery.attempt(ctx, extension): what the returned promise settles to.
\* "Context" / "Error" are resolved values (flushOne types the result as
\* Context | Error), "throw" is a rejection.  Modelled from the design text:
\* a failing enrichment plugin is absorbed and a failing destination plugin
\* fails the run.  A plugin that succeeds resolves with the Context it was
\* given.
attempt(p) ==
  IF p.ok THEN "Context"
  ELSE IF p.type = "destination" THEN "throw"
  ELSE "Error"

\* delivery.ensure(ctx, extension): attempt, and cancel unless a Context
\* came back.
ensure(p) == IF attempt(p) = "Context" THEN "Context" ELSE "throw"

\* mutant: `some` in place of `every`
isReady_some(exts) == \E k \in 1..Len(exts) : isLoaded(exts[k])

\* ------------------------------------------------------------ helpers
isReady(exts) == \A k \in 1..Len(exts) : isLoaded(exts[k])

\* Array.prototype.filter on p.type, keeping positions in config.extensions
RECURSIVE filter(_, _, _)
filter(exts, t, k) ==
  IF k > Len(exts) THEN <<>>
  ELSE IF exts[k].type = t THEN <<k>> \o filter(exts, t, k + 1)
  ELSE filter(exts, t, k + 1)

Range(s) == {s[k] : k \in 1..Len(s)}

RECURSIVE MapSeq(_, _)
MapSeq(s, tag) ==
  IF s = <<>> THEN <<>> ELSE <<(<<tag, Head(s)>>)>> \o MapSeq(Tail(s), tag)

SealMark == <<"seal", 0>>

IdlePass ==
  [pc |-> "idle", origin |-> "none", flushed |-> <<>>, ev |-> 0,
   ready |-> FALSE, before |-> <<>>, enrichment |-> <<>>,
   destinations |-> <<>>, idx |-> 0, pend |-> {}, trace |-> <<>>,
   res |-> "none"]

\* ------------------------------------------------------------ flushOne
\* flush, lines 81-84: flushOne resolved with `val`; the Context is pushed
\* on the call's flushed list and the loop goes round.
Resolved(r, val) ==
  [r EXCEPT !.pc = "loop", !.res = val, !.flushed = Append(@, r.ev),
            !.pend = {}, !.idx = 0]

\* flush, lines 85-94: flushOne rejected; the catch re-enqueues (the push
\* on this.queue is in the action) and the loop goes round.
Rejected(r) ==
  [r EXCEPT !.pc = "loop", !.res = "error", !.pend = {}, !.idx = 0]

\* mutant: seal() called after the delivery attempts were started
ToDestinations_sealLate(r) ==
  LET tr == (r.trace \o MapSeq(r.destinations, "destination")) \o <<SealMark>>
  IN IF r.destinations = <<>>
     THEN Resolved([r EXCEPT !.trace = tr], "ctx")
     ELSE [r EXCEPT !.pc = "destination", !.idx = 0,
                    !.pend = Range(r.destinations), !.trace = tr]

\* mutant: a destination that was already handed the event is left out
ToDestinations_once(r) ==
  LET fresh == {k \in Range(r.destinations) : <<r.ev, k, 1>> \notin received}
      tr == (r.trace \o <<SealMark>>)
              \o MapSeq(SelectSeq(r.destinations, LAMBDA k : k \in fresh),
                        "destination")
  IN IF fresh = {}
     THEN Resolved([r EXCEPT !.trace = tr], "ctx")
     ELSE [r EXCEPT !.pc = "destination", !.idx = 0, !.pend = fresh, !.trace = tr]

\* flushOne, lines 131-142: seal, start every delivery attempt, await all.
ToDestinations(r) ==
  LET tr == (r.trace \o <<SealMark>>) \o MapSeq(r.destinations, "destination")
  IN IF r.destinations = <<>>
     THEN Resolved([r EXCEPT !.trace = tr], "ctx")
     ELSE [r EXCEPT !.pc = "destination", !.idx = 0,
                    !.pend = Range(r.destinations), !.trace = tr]

\* flushOne, lines 124-129: the enrichment loop from its k-th plugin on.
ToEnrichment(r, k) ==
  IF k <= Len(r.enrichment)
  THEN [r EXCEPT !.pc = "enrichment", !.idx = k,
                 !.trace = Append(@, <<"enrichment", r.enrichment[k]>>)]
  ELSE ToDestinations(r)

\* flushOne, lines 115-120: the before loop from its k-th plugin on.
ToBefore(r, k) ==
  IF k <= Len(r.before)
  THEN [r EXCEPT !.pc = "before", !.idx = k,
                 !.trace = Append(@, <<"before", r.before[k]>>)]
  ELSE ToEnrichment(r, 1)

\* flushOne, lines 105-113: the readiness gate and the three filters, then
\* on to the first await.
flushOne(r, exts) ==
  IF ~isReady(exts)
  THEN Resolved([r EXCEPT !.ready = FALSE], "undefined")
  ELSE ToBefore([r EXCEPT !.ready = TRUE,
                          !.before = filter(exts, "before", 1),
                          !.enrichment = filter(exts, "enrichment", 1),
                          !.destinations = filter(exts, "destination", 1)], 1)

\* mutant: the delivery attempts are awaited without their rejections
\* being propagated
Settle_allSettled(r, d, exts) ==
  CASE r.pc = "before" ->
         IF ensure(exts[d]) = "throw" THEN Rejected(r) ELSE ToBefore(r, r.idx + 1)
    [] r.pc = "enrichment" ->
         IF attempt(exts[d]) = "throw" THEN Rejected(r)
         ELSE ToEnrichment(r, r.idx + 1)
    [] r.pc = "destination" ->
         IF r.pend = {d} THEN Resolved(r, "ctx")
         ELSE [r EXCEPT !.pend = @ \ {d}]

\* mutant: an enrichment plugin that returns no Context ends the run
Settle_enrichmentAborts(r, d, exts) ==
  CASE r.pc = "before" ->
         IF ensure(exts[d]) = "throw" THEN Rejected(r) ELSE ToBefore(r, r.idx + 1)
    [] r.pc = "enrichment" ->
         IF attempt(exts[d]) # "Context" THEN Rejected(r)
         ELSE ToEnrichment(r, r.idx + 1)
    [] r.pc = "destination" ->
         IF attempt(exts[d]) = "throw" THEN Rejected(r)
         ELSE IF r.pend = {d} THEN Resolved(r, "ctx")
         ELSE [r EXCEPT !.pend = @ \ {d}]

\* mutant: the destinations are filtered again when a call settles, from
\* the plugin list as it is then
Settle_lateFilter(r, d, exts) ==
  LET r1 == [r EXCEPT !.destinations = filter(exts, "destination", 1)]
  IN CASE r.pc = "before" ->
            IF ensure(exts[d]) = "throw" THEN Rejected(r1) ELSE ToBefore(r1, r.idx + 1)
       [] r.pc = "enrichment" ->
            IF attempt(exts[d]) = "throw" THEN Rejected(r1)
            ELSE ToEnrichment(r1, r.idx + 1)
       [] r.pc = "destination" ->
            IF attempt(exts[d]) = "throw" THEN Rejected(r)
            ELSE IF r.pend = {d} THEN Resolved(r, "ctx")
            ELSE [r EXCEPT !.pend = @ \ {d}]

\* The awaited call of plugin d has settled: flushOne's continuation.
Settle(r, d, exts) ==
  CASE r.pc = "before" ->
         IF ensure(exts[d]) = "throw" THEN Rejected(r) ELSE ToBefore(r, r.idx + 1)
    [] r.pc = "enrichment" ->
         IF attempt(exts[d]) = "throw" THEN Rejected(r)
         ELSE ToEnrichment(r, r.idx + 1)
    [] r.pc = "destination" ->
         IF attempt(exts[d]) = "throw" THEN Rejected(r)
         ELSE IF r.pend = {d} THEN Resolved(r, "ctx")
         ELSE [r EXCEPT !.pend = @ \ {d}]

SealedBy(r) == IF SealMark \in Range(r.trace) THEN {r.ev} ELSE {}

\* the plugin calls flushOne is suspended on
Awaited(r) ==
  CASE r.pc = "before" -> {r.before[r.idx]}
    [] r.pc = "enrichment" -> {r.enrichment[r.idx]}
    [] r.pc = "destination" -> r.pend
    [] OTHER -> {}

\* flushOne, line 138: the destinations whose delivery attempt is started
\* in the step that takes a run from r to r2
Started(r, r2) ==
  IF SealMark \in Range(r2.trace) /\ SealMark \notin Range(r.trace)
  THEN Range(r2.destinations)
  ELSE {}

\* the deliveries counted so far, with event e handed to the destinations K
Hand(rec, e, K) ==
  rec \cup {<<e, t[1], t[2]>> :
              t \in {u \in K \X (1..MaxDeliveries) :
                       u[2] = 1 \/ <<e, u[1], u[2] - 1>> \in rec}}

\* the returned lists with the list fl added
Return(ret, fl) ==
  [e \in Events |-> ret[e] + Cardinality({n \in 1..Len(fl) : fl[n] = e})]

\* ------------------------------------------------------------ flush
\* flush, line 98: pWhile has resolved, `return flushed` is all that is left
Exit(r) == [IdlePass EXCEPT !.pc = "exit", !.origin = r.origin, !.flushed = r.flushed]

\* mutant: the head of the buffer is read and left in place
Iterate_peek(i, r) ==
  IF Len(queue) > 0
  THEN LET ctx == Head(queue)
           r2 == flushOne([r EXCEPT !.ev = ctx, !.res = "none", !.trace = <<>>,
                                    !.before = <<>>, !.enrichment = <<>>,
                                    !.destinations = <<>>], extensions)
       IN /\ queue' = queue
          /\ pass' = [pass EXCEPT ![i] = r2]
          /\ sealed' = sealed \cup SealedBy(r2)
          /\ popped' = popped \cup {<<ctx, r.origin>>}
          /\ received' = Hand(received, ctx, Started(IdlePass, r2))
  ELSE /\ pass' = [pass EXCEPT ![i] = Exit(r)]
       /\ UNCHANGED <<queue, sealed, popped, received>>

\* mutant: the loop ends after the first Context it has flushed
Iterate_leavesEarly(i, r) ==
  IF Len(queue) > 0 /\ r.flushed = <<>>
  THEN LET ctx == Head(queue)
           r2 == flushOne([r EXCEPT !.ev = ctx, !.res = "none", !.trace = <<>>,
                                    !.before = <<>>, !.enrichment = <<>>,
                                    !.destinations = <<>>], extensions)
       IN /\ queue' = Tail(queue)
          /\ pass' = [pass EXCEPT ![i] = r2]
          /\ sealed' = sealed \cup SealedBy(r2)
          /\ popped' = popped \cup {<<ctx, r.origin>>}
          /\ received' = Hand(received, ctx, Started(IdlePass, r2))
  ELSE /\ pass' = [pass EXCEPT ![i] = Exit(r)]
       /\ UNCHANGED <<queue, sealed, popped, received>>

\* mutant: the loop goes round on an empty buffer instead of ending
Iterate_spins(i, r) ==
  IF Len(queue) > 0
  THEN LET ctx == Head(queue)
           r2 == flushOne([r EXCEPT !.ev = ctx, !.res = "none", !.trace = <<>>,
                                    !.before = <<>>, !.enrichment = <<>>,
                                    !.destinations = <<>>], extensions)
       IN /\ queue' = Tail(queue)
          /\ pass' = [pass EXCEPT ![i] = r2]
          /\ sealed' = sealed \cup SealedBy(r2)
          /\ popped' = popped \cup {<<ctx, r.origin>>}
          /\ received' = Hand(received, ctx, Started(IdlePass, r2))
  ELSE /\ pass' = [pass EXCEPT ![i] = [r EXCEPT !.pc = "loop"]]
       /\ UNCHANGED <<queue, sealed, popped, received>>

\* One turn of pWhile in flush: the condition, and when it holds the
\* shift and the synchronous head of flushOne.
Iterate(i, r) ==
  IF Len(queue) > 0
  THEN LET ctx == Head(queue)
           r2 == flushOne([r EXCEPT !.ev = ctx, !.res = "none", !.trace = <<>>,
                                    !.before = <<>>, !.enrichment = <<>>,
                                    !.destinations = <<>>], extensions)
       IN /\ queue' = Tail(queue)
          /\ pass' = [pass EXCEPT ![i] = r2]
          /\ sealed' = sealed \cup SealedBy(r2)
          /\ popped' = popped \cup {<<ctx, r.origin>>}
          /\ received' = Hand(received, ctx, Started(IdlePass, r2))
  ELSE /\ pass' = [pass EXCEPT ![i] = Exit(r)]
       /\ UNCHANGED <<queue, sealed, popped, received>>

FreeSlots == {i \in Slots : pass[i].pc = "idle"}
FreeSlot == CHOOSE i \in FreeSlots : \A j \in FreeSlots : i <= j
InFlight(o) == {i \in Slots : pass[i].pc # "idle" /\ pass[i].origin = o}

\* mutant: no timer is armed
scheduleFlush_never(fl, t) == t

\* scheduleFlush: the number of armed timers after the call
scheduleFlush(fl, t) == IF fl THEN t ELSE t + 1

\* ------------------------------------------------------------ actions
\* mutant: unshift in place of push
dispatch_unshift(ctx) ==
  /\ ctx = Len(dispatched) + 1
  /\ queue' = <<ctx>> \o queue
  /\ timers' = scheduleFlush(flushing, timers)
  /\ dispatchRet' = ctx
  /\ dispatched' = Append(dispatched, ctx)
  /\ UNCHANGED <<archive, flushing, extensions, pass, sealed, popped, returned,
                 received, registerErr, raced>>

\* mutant: dispatch waits for the flush in flight to end
dispatch_waits(ctx) ==
  /\ ~flushing
  /\ ctx = Len(dispatched) + 1
  /\ queue' = Append(queue, ctx)
  /\ timers' = scheduleFlush(flushing, timers)
  /\ dispatchRet' = ctx
  /\ dispatched' = Append(dispatched, ctx)
  /\ UNCHANGED <<archive, flushing, extensions, pass, sealed, popped, returned,
                 received, registerErr, raced>>

\* Contexts are made by the producer: they are named by the order in
\* which they are dispatched.
dispatch(ctx) ==
  /\ ctx = Len(dispatched) + 1
  /\ queue' = Append(queue, ctx)
  /\ timers' = scheduleFlush(flushing, timers)
  /\ dispatchRet' = ctx
  /\ dispatched' = Append(dispatched, ctx)
  /\ UNCHANGED <<archive, flushing, extensions, pass, sealed, popped, returned,
                 received, registerErr, raced>>

\* a promise continuation of flush is queued (a microtask)
Microtasks == {i \in Slots : pass[i].pc \in {"loop", "exit"}}

\* the setTimeout callback of scheduleFlush up to its await; a timer is a
\* macrotask, run only once no promise continuation is queued
TimerFire ==
  /\ timers > 0
  /\ Microtasks = {}
  /\ FreeSlots # {}
  /\ timers' = timers - 1
  /\ flushing' = TRUE
  /\ Iterate(FreeSlot, [IdlePass EXCEPT !.pc = "loop", !.origin = "timer"])
  /\ raced' = (raced \/ FreeSlots # Slots)
  /\ UNCHANGED <<archive, extensions, dispatchRet, dispatched, returned, registerErr>>

\* the setTimeout callback after `await this.flush()`
TimerDone(i) ==
  /\ pass[i].pc = "exit"
  /\ pass[i].origin = "timer"
  /\ flushing' = FALSE
  /\ timers' = scheduleFlush(FALSE, timers)
  /\ pass' = [pass EXCEPT ![i] = IdlePass]
  /\ returned' = Return(returned, pass[i].flushed)
  /\ UNCHANGED <<queue, archive, extensions, sealed, dispatchRet, dispatched, popped,
                 received, registerErr, raced>>

\* flush() called by the application
DirectFlush ==
  /\ Cardinality(InFlight("direct")) < MaxDirect
  /\ FreeSlots # {}
  /\ Iterate(FreeSlot, [IdlePass EXCEPT !.pc = "loop", !.origin = "direct"])
  /\ raced' = (raced \/ FreeSlots # Slots)
  /\ UNCHANGED <<archive, flushing, extensions, timers, dispatchRet, dispatched,
                 returned, registerErr>>

\* a direct flush() resolves with its flushed list
FlushReturn(i) ==
  /\ pass[i].pc = "exit"
  /\ pass[i].origin = "direct"
  /\ pass' = [pass EXCEPT ![i] = IdlePass]
  /\ returned' = Return(returned, pass[i].flushed)
  /\ UNCHANGED <<queue, archive, flushing, extensions, timers, sealed,
                 dispatchRet, dispatched, popped, received, registerErr, raced>>

\* pWhile goes round after one action settled
LoopStep(i) ==
  /\ pass[i].pc = "loop"
  /\ Iterate(i, pass[i])
  /\ UNCHANGED <<archive, flushing, extensions, timers, dispatchRet, dispatched,
                 returned, registerErr, raced>>

\* mutant: the catch block puts the Context back at the head
PluginDone_unshift(i) ==
  /\ \E d \in Awaited(pass[i]) :
       LET r2 == Settle(pass[i], d, extensions)
       IN /\ pass' = [pass EXCEPT ![i] = r2]
          /\ queue' = IF r2.res = "error" THEN <<r2.ev>> \o queue ELSE queue
          /\ sealed' = sealed \cup SealedBy(r2)
          /\ received' = Hand(received, r2.ev, Started(pass[i], r2))
  /\ UNCHANGED <<archive, flushing, extensions, timers, dispatchRet, dispatched, popped,
                 returned, registerErr, raced>>

\* an awaited plugin call settles and flushOne runs on
PluginDone(i) ==
  /\ \E d \in Awaited(pass[i]) :
       LET r2 == Settle(pass[i], d, extensions)
       IN /\ pass' = [pass EXCEPT ![i] = r2]
          /\ queue' = IF r2.res = "error" THEN Append(queue, r2.ev) ELSE queue
          /\ sealed' = sealed \cup SealedBy(r2)
          /\ received' = Hand(received, r2.ev, Started(pass[i], r2))
  /\ UNCHANGED <<archive, flushing, extensions, timers, dispatchRet, dispatched, popped,
                 returned, registerErr, raced>>

\* mutant: the plugin is pushed once its load has resolved
register_afterLoad(t, ok) ==
  /\ Len(extensions) < MaxPlugins
  /\ extensions' = Append(extensions, Plugin(t, ok, "loaded"))
  /\ UNCHANGED <<queue, archive, flushing, timers, pass, sealed, dispatchRet,
                 dispatched, popped, returned, received, registerErr, raced>>

register(t, ok) ==
  /\ Len(extensions) < MaxPlugins
  /\ extensions' = Append(extensions, Plugin(t, ok, "pending"))
  /\ UNCHANGED <<queue, archive, flushing, timers, pass, sealed, dispatchRet,
                 dispatched, popped, returned, received, registerErr, raced>>

\* the load awaited by register resolves / rejects
LoadDone(k) ==
  /\ extensions[k].load = "pending"
  /\ extensions' = [extensions EXCEPT ![k].load = "loaded"]
  /\ UNCHANGED <<queue, archive, flushing, timers, pass, sealed, dispatchRet,
                 dispatched, popped, returned, received, registerErr, raced>>

LoadFail(k) ==
  /\ extensions[k].load = "pending"
  /\ extensions' = [extensions EXCEPT ![k].load = "failed"]
  /\ registerErr' = registerErr \cup {k}
  /\ UNCHANGED <<queue, archive, flushing, timers, pass, sealed, dispatchRet,
                 dispatched, popped, returned, received, raced>>

\* ------------------------------------------------------------ specification
\* the engine as EventQueue.init returns it
Constructed ==
  /\ queue = <<>>
  /\ archive = <<>>
  /\ flushing = FALSE
  /\ timers = 0
  /\ pass = [i \in Slots |-> IdlePass]
  /\ sealed = {}
  /\ dispatchRet = 0
  /\ dispatched = <<>>
  /\ popped = {}
  /\ returned = [e \in Events |-> 0]
  /\ received = {}
  /\ registerErr = {}
  /\ raced = FALSE

Init == Constructed /\ extensions \in InitConfigs(MaxPlugins)

Next ==
  \/ \E ctx \in Events : dispatch(ctx)
  \/ TimerFire
  \/ \E i \in Slots : TimerDone(i)
  \/ DirectFlush
  \/ \E i \in Slots : FlushReturn(i)
  \/ \E i \in Slots : LoopStep(i)
  \/ \E i \in Slots : PluginDone(i)
  \/ \E t \in Types, ok \in BOOLEAN : register(t, ok)
  \/ \E k \in 1..Len(extensions) : LoadDone(k)
  \/ \E k \in 1..Len(extensions) : LoadFail(k)

Spec == Init /\ [][Next]_vars

\* every queued continuation is run and every plugin call settles
Progress ==
  \A i \in Slots :
    /\ WF_vars(LoopStep(i))
    /\ WF_vars(PluginDone(i))
    /\ WF_vars(TimerDone(i))
    /\ WF_vars(FlushReturn(i))

FairSpec == Spec /\ WF_vars(TimerFire) /\ Progress

\* the engine driven by its timer alone: flush() is never called directly
NextTimer ==
  \/ \E ctx \in Events : dispatch(ctx)
  \/ TimerFire
  \/ \E i \in Slots : TimerDone(i)
  \/ \E i \in Slots : LoopStep(i)
  \/ \E i \in Slots : PluginDone(i)
  \/ \E t \in Types, ok \in BOOLEAN : register(t, ok)
  \/ \E k \in 1..Len(extensions) : LoadDone(k)
  \/ \E k \in 1..Len(extensions) : LoadFail(k)

TimerSpec == Init /\ [][NextTimer]_vars

LiveSpec == TimerSpec /\ WF_vars(TimerFire) /\ Progress

\* longer pipelines, with flush() called by the application before any
\* timer has fired and no plugin registered after init
InitPipeline == Constructed /\ extensions \in InitConfigs(MaxPipeline)

NextPipeline ==
  \/ \E ctx \in Events : dispatch(ctx)
  \/ DirectFlush
  \/ \E i \in Slots : FlushReturn(i)
  \/ \E i \in Slots : LoopStep(i)
  \/ \E i \in Slots : PluginDone(i)

PipelineSpec == InitPipeline /\ [][NextPipeline]_vars

\* ------------------------------------------------------------ properties
IsPrefix(s, t) == Len(s) <= Len(t) /\ SubSeq(t, 1, Len(s)) = s
Last(s) == s[Len(s)]
AllLoaded == \A k \in 1..Len(extensions) : extensions[k].load = "loaded"
Running(i) == pass[i].pc \in {"before", "enrichment", "destination"}
\* pass i shifts the head of the pending buffer in this step
Pops(i) == Len(queue) > 0 /\ queue' = Tail(queue) /\ pass'[i] # pass[i]
\* the plugins of one type, by position in the plugin list
OfType(t) == {k \in 1..Len(extensions) : extensions[k].type = t}
FailingIn(s) == {k \in Range(s) : ~extensions[k].ok}

\* the invocations of a complete pipeline run, in order
FullTrace(r) ==
  ((MapSeq(r.before, "before") \o MapSeq(r.enrichment, "enrichment"))
     \o <<SealMark>>) \o MapSeq(r.destinations, "destination")

\* C1: with flush() never called directly, at most one timer-driven flush
\* pass is in flight at any time.
C1_OneTimerFlushInFlight == Cardinality(InFlight("timer")) <= 1

\* one failing before plugin, one event dispatched, and flush() call i has
\* popped it
C2_Scenario(i) ==
  /\ extensions = <<Plugin("before", FALSE, "loaded")>>
  /\ dispatched = <<1>>
  /\ pass[i].origin = "direct"
  /\ pass[i].pc = "before"

\* C2: with all plugins loaded and one before plugin that always fails, a
\* flush() call that popped the one dispatched event returns.
C2_FlushReturns ==
  \A i \in Slots : C2_Scenario(i) ~> (pass[i].pc = "exit")

C4_NotReadyIsFlushed ==
  [][\A i \in Slots :
       /\ (Pops(i) /\ ~AllLoaded)
          => /\ pass'[i].trace = <<>>
             /\ pass'[i].pc = "loop"
             /\ pass'[i].res = "undefined"
             /\ sealed' = sealed
             /\ Head(queue) \notin Range(queue')
             /\ pass'[i].flushed = Append(pass[i].flushed, Head(queue))
       /\ (pass[i].pc # "idle" /\ pass'[i].pc # "idle")
          => IsPrefix(pass[i].flushed, pass'[i].flushed)]_vars
C4_Witness ==
  \E i \in Slots :
    /\ ~AllLoaded
    /\ pass[i].origin = "direct"
    /\ pass[i].pc = "exit"
    /\ pass[i].flushed = <<1>>
    /\ Len(extensions) = MaxPlugins
    /\ sealed = {}
    /\ queue = <<>>

\* C5: on a ready engine with no failing before plugin and no failing
\* destination plugin, a pipeline run invokes every enrichment plugin and
\* every destination plugin whichever enrichment plugins fail, and the event
\* is flushed and not re-enqueued.
C5_EnrichmentFailureDoesNotAbort ==
  \A i \in Slots :
    (/\ pass[i].pc = "loop"
     /\ pass[i].ready
     /\ FailingIn(pass[i].before) = {}
     /\ FailingIn(pass[i].destinations) = {})
    => /\ pass[i].res = "ctx"
       /\ pass[i].trace = FullTrace(pass[i])
       /\ pass[i].flushed # <<>>
       /\ Last(pass[i].flushed) = pass[i].ev
       /\ pass[i].ev \notin Range(queue)
C5_Witness ==
  \E i \in Slots :
    /\ pass[i].pc = "loop"
    /\ pass[i].ready
    /\ pass[i].res = "ctx"
    /\ Len(pass[i].enrichment) = 2
    /\ ~extensions[pass[i].enrichment[1]].ok
    /\ extensions[pass[i].enrichment[2]].ok
    /\ Len(pass[i].destinations) = 1
    /\ pass[i].trace = FullTrace(pass[i])
    /\ pass[i].flushed = <<pass[i].ev>>
    /\ queue = <<>>

C7_StagesInOrder ==
  \A i \in Slots :
    LET r == pass[i] IN
    (r.pc \in {"before", "enrichment", "destination", "loop"} /\ r.ready)
    => /\ IsPrefix(r.trace, FullTrace(r))
       /\ \A k \in Range(r.before) : extensions[k].type = "before"
       /\ \A k \in Range(r.enrichment) : extensions[k].type = "enrichment"
       /\ \A k \in Range(r.destinations) : extensions[k].type = "destination"
       /\ \A m, n \in 1..Len(r.before) : m < n => r.before[m] < r.before[n]
       /\ \A m, n \in 1..Len(r.enrichment) : m < n => r.enrichment[m] < r.enrichment[n]
       /\ r.pc = "before" =>
            (Len(r.trace) = r.idx /\ Awaited(r) = {Last(r.trace)[2]})
       /\ r.pc = "enrichment" =>
            (Len(r.trace) = Len(r.before) + r.idx /\ Awaited(r) = {Last(r.trace)[2]})
       /\ r.pc = "destination" => (r.trace = FullTrace(r) /\ r.ev \in sealed)
       /\ (\E k \in 1..Len(r.trace) : r.trace[k][1] = "destination")
            => r.ev \in sealed
C7_Witness ==
  \E i \in Slots :
    /\ pass[i].pc = "destination"
    /\ Len(pass[i].before) = 1
    /\ Len(pass[i].enrichment) = 1
    /\ Len(pass[i].destinations) = 1
    /\ pass[i].trace = FullTrace(pass[i])
    /\ pass[i].ev \in sealed

\* C8: as long as no flush pass has popped anything, the pending buffer is
\* the sequence of dispatched events in dispatch order.
C8_QueueIsDispatchOrder == (popped = {}) => (queue = dispatched)
C8_Witness == popped = {} /\ Len(queue) = MaxEvents

\* C9: dispatch can be called in every engine state; it resolves with its
\* event, appends it at the tail of the pending buffer and changes neither
\* the other pending events, the archive nor the plugin list.
C9_DispatchAlwaysSucceeds ==
  /\ [](Len(dispatched) < MaxEvents => ENABLED dispatch(Len(dispatched) + 1))
  /\ [][\A e \in Events :
          (dispatched' = Append(dispatched, e))
          => /\ queue' = Append(queue, e)
             /\ dispatchRet' = e
             /\ archive' = archive
             /\ extensions' = extensions
             /\ pass' = pass]_vars
C9_Witness ==
  /\ dispatchRet = MaxEvents
  /\ flushing
  /\ queue = <<MaxEvents>>
  /\ ~AllLoaded

\* C10: flush() called on an empty pending buffer invokes no plugin, leaves
\* the buffer empty and returns an empty flushed list.
C10_FlushOfEmptyQueue ==
  [][\A i \in Slots :
       /\ (pass[i].pc = "idle" /\ pass'[i].pc # "idle" /\ queue = <<>>)
          => /\ pass'[i].pc = "exit"
             /\ pass'[i].flushed = <<>>
             /\ pass'[i].trace = <<>>
             /\ queue' = <<>>
             /\ sealed' = sealed
       /\ (pass[i].pc = "exit" /\ pass'[i] # pass[i])
          => (pass'[i].pc = "idle" /\ queue' = queue /\ sealed' = sealed)]_vars
C10_Witness ==
  \E i \in Slots :
    /\ pass[i].origin = "direct"
    /\ pass[i].pc = "exit"
    /\ pass[i].flushed = <<>>
    /\ queue = <<>>
    /\ popped = {}
    /\ Len(extensions) > 0

\* C11: at most one flush timer is armed and not yet fired at any time, and
\* no timer is armed while a timer-driven flush pass is in flight.
C11_OneTimerArmed ==
  /\ timers <= 1
  /\ (InFlight("timer") # {}) => (timers = 0)

\* C12: within one flush() pass each event is attempted at most once: a pass
\* pops neither the event whose run it has just seen fail nor an event it
\* has already put on its flushed list.
C12_OneAttemptPerPass ==
  [][\A i \in Slots :
       (pass[i].pc = "loop" /\ Pops(i))
       => /\ Head(queue) \notin Range(pass[i].flushed)
          /\ (pass[i].res = "error" => Head(queue) # pass[i].ev)]_vars

\* C13: while a timer-driven flush pass is suspended on a plugin call, and
\* as long as that call does not complete, no event is popped, no plugin is
\* invoked for another event, and no flush timer is armed or fires;
\* dispatched events only go to the tail of the pending buffer.
C13_StuckPluginStallsCadence ==
  [][\A i \in Slots :
       (/\ pass[i].origin = "timer"
        /\ Running(i)
        /\ pass'[i] = pass[i])
       => /\ popped' = popped
          /\ pass' = pass
          /\ timers' = timers
          /\ IsPrefix(queue, queue')]_vars

\* C14: when the call of a before plugin fails, the run of that event ends
\* there: nothing else is invoked in that attempt (the invocations are the
\* before plugins up to the failing one), the attempt does not seal the
\* event or hand it to a destination, the event is not flushed, and it is
\* pushed at the tail of the pending buffer, behind what was dispatched in
\* the meantime.
C14_BeforeFailureEndsRun ==
  [][\A i \in Slots :
       (/\ pass[i].pc = "before"
        /\ pass'[i] # pass[i]
        /\ ~extensions[pass[i].before[pass[i].idx]].ok)
       => /\ pass'[i].pc = "loop"
          /\ pass'[i].res = "error"
          /\ pass'[i].trace =
               MapSeq(SubSeq(pass[i].before, 1, pass[i].idx), "before")
          /\ sealed' = sealed
          /\ received' = received
          /\ pass'[i].flushed = pass[i].flushed
          /\ queue' = Append(queue, pass[i].ev)]_vars
C14_Witness ==
  \E i \in Slots :
    /\ pass[i].pc = "loop"
    /\ pass[i].res = "error"
    /\ pass[i].ev = 1
    /\ Len(pass[i].before) = 2
    /\ Len(pass[i].destinations) = 1
    /\ pass[i].trace = <<(<<"before", pass[i].before[1]>>)>>
    /\ queue = <<2, 1>>
    /\ sealed = {}
    /\ received = {}

\* pass i starts the destination stage of a run in this step
StartsDestinations(i) ==
  /\ pass'[i] # pass[i]
  /\ SealMark \in Range(pass'[i].trace)
  /\ (pass[i].pc \in {"idle", "loop"} \/ SealMark \notin Range(pass[i].trace))

\* C15: in every pipeline run that reaches the destination stage each
\* registered destination plugin is invoked exactly once, also when another
\* destination fails; and a run of an event that was attempted before hands
\* the event again to every destination that already received it.
C15_RetryRedeliversToAll ==
  /\ [](\A i \in Slots :
          (pass[i].pc \in {"destination", "loop"} /\ SealMark \in Range(pass[i].trace))
          => \A k \in OfType("destination") :
               Cardinality({n \in 1..Len(pass[i].trace) :
                              pass[i].trace[n] = <<"destination", k>>}) = 1)
  /\ [][\A i \in Slots :
          StartsDestinations(i)
          => \A k \in OfType("destination") :
               /\ <<"destination", k>> \in Range(pass'[i].trace)
               /\ <<pass'[i].ev, k, 1>> \in received'
               /\ (<<pass'[i].ev, k, 1>> \in received)
                    => (<<pass'[i].ev, k, 2>> \in received')]_vars
C15_Witness ==
  \E i \in Slots : \E k1, k2 \in OfType("destination") :
    /\ extensions[k1].ok
    /\ ~extensions[k2].ok
    /\ pass[i].pc = "destination"
    /\ pass[i].pend = {k1, k2}
    /\ <<pass[i].ev, k1, 2>> \in received

\* the number of places event e is in: entries of the pending buffer, flush
\* passes running its pipeline, entries of the flushed lists of the passes
\* in flight, entries of the lists already returned
Places(e) ==
  Cardinality({n \in 1..Len(queue) : queue[n] = e})
  + Cardinality({i \in Slots : Running(i) /\ pass[i].ev = e})
  + Cardinality({x \in Slots \X (1..Len(dispatched)) :
                   /\ x[2] <= Len(pass[x[1]].flushed)
                   /\ pass[x[1]].flushed[x[2]] = e})
  + returned[e]

\* C16: under every interleaving of dispatch, timer-driven and direct flush
\* passes, every dispatched event is in exactly one place: once in the
\* pending buffer, or held by one pass that is running its pipeline, or once
\* in one flushed list; an event not dispatched is nowhere.
C16_EventConservation ==
  \A e \in Events :
    Places(e) = IF e \in Range(dispatched) THEN 1 ELSE 0
C16_Witness ==
  \E i, j \in Slots :
    /\ pass[i].origin = "timer"
    /\ pass[j].origin = "direct"
    /\ Running(i)
    /\ Running(j)
    /\ pass[i].ev # pass[j].ev
    /\ queue = <<>>

\* no plugin whose failure fails a pipeline run
NoRunFails ==
  \A k \in 1..Len(extensions) : extensions[k].ok \/ extensions[k].type = "enrichment"
\* the event pass i is running the pipeline of
Held(i) == IF Running(i) THEN <<pass[i].ev>> ELSE <<>>
IsSuffix(s, t) ==
  Len(s) <= Len(t) /\ SubSeq(t, Len(t) - Len(s) + 1, Len(t)) = s

NewCalls(i) ==
  IF pass[i].pc \in {"idle", "loop"}
  THEN Range(pass'[i].trace)
  ELSE Range(SubSeq(pass'[i].trace, Len(pass[i].trace) + 1, Len(pass'[i].trace)))

\* C18: no before or enrichment plugin is invoked on an event that is
\* already sealed, and seal is not applied to an event that is already
\* sealed, on the first attempt and on every retry.
C18_SealedOnce ==
  [][\A i \in Slots :
       (pass'[i] # pass[i])
       => \A c \in NewCalls(i) :
            (c = SealMark \/ c[1] \in {"before", "enrichment"})
            => pass'[i].ev \notin sealed]_vars

\* the plugins the run of pass i was partitioned into at its start
Plan(r) == (Range(r.before) \cup Range(r.enrichment)) \cup Range(r.destinations)
\* the plugins the run of pass i has invoked
Invoked(r) == {r.trace[n][2] : n \in {m \in 1..Len(r.trace) : r.trace[m] # SealMark}}

\* C19: with load states that never go back from loaded, under every
\* interleaving of register with flush a pipeline run invokes only plugins
\* that are loaded and that are in the partition taken at its start; the
\* partition holds loaded plugins only, is not changed while the run lasts,
\* and a register call leaves every run in flight as it is, so a plugin
\* registered during a run is not invoked for that run.
C19_OnlyLoadedPluginsInvoked ==
  /\ [](\A i \in Slots :
          (Running(i) \/ pass[i].pc = "loop")
          => /\ Invoked(pass[i]) \subseteq Plan(pass[i])
             /\ \A k \in Plan(pass[i]) :
                  k \in 1..Len(extensions) /\ extensions[k].load = "loaded")
  /\ [][ /\ \A i \in Slots :
            (Running(i) /\ pass'[i].pc # "idle")
            => /\ pass'[i].before = pass[i].before
               /\ pass'[i].enrichment = pass[i].enrichment
               /\ pass'[i].destinations = pass[i].destinations
         /\ (Len(extensions') > Len(extensions))
            => /\ pass' = pass
               /\ extensions'[Len(extensions')].load = "pending"
               /\ \A i \in Slots : Len(extensions') \notin Plan(pass[i])
         /\ \A k \in 1..Len(extensions) :
              (extensions[k].load = "loaded") => (extensions'[k].load = "loaded")]_vars
C19_Witness ==
  \E i \in Slots : \E k \in 1..Len(extensions) :
    /\ pass[i].pc = "before"
    /\ pass[i].ready
    /\ Invoked(pass[i]) # {}
    /\ extensions[k].type = "before"
    /\ extensions[k].load = "pending"
    /\ k \notin Plan(pass[i])

\* the plugins whose load is pending or has failed
NotLoaded == {k \in 1..Len(extensions) : extensions[k].load \in {"pending", "failed"}}

\* C20: register appends the plugin with its load pending and no plugin is
\* ever removed or replaced; a failed load stays failed; while some load is
\* pending or has failed every event popped is put on the flushed list of
\* the pass with no plugin invoked, and the pass returns that list; the
\* register calls that rejected are those whose load failed.
C20_RegisterBeforeLoad ==
  /\ [](registerErr = {k \in 1..Len(extensions) : extensions[k].load = "failed"})
  /\ [][ /\ Len(extensions') >= Len(extensions)
         /\ \A k \in 1..Len(extensions) :
              /\ extensions'[k].type = extensions[k].type
              /\ extensions'[k].ok = extensions[k].ok
              /\ (extensions[k].load = "failed") => (extensions'[k].load = "failed")
         /\ (Len(extensions') > Len(extensions))
            => /\ Len(extensions') = Len(extensions) + 1
               /\ extensions'[Len(extensions')].load = "pending"
         /\ \A i \in Slots :
              /\ (Pops(i) /\ NotLoaded # {})
                 => /\ pass'[i].trace = <<>>
                    /\ pass'[i].pc = "loop"
                    /\ pass'[i].flushed = Append(pass[i].flushed, Head(queue))
                    /\ received' = received
                    /\ sealed' = sealed
              /\ (pass[i].pc = "exit" /\ pass'[i].pc = "idle")
                 => returned' = Return(returned, pass[i].flushed)]_vars
C20_Witness ==
  \E i \in Slots : \E k \in 1..Len(extensions) :
    /\ extensions[k].load = "failed"
    /\ k \in registerErr
    /\ k > 1
    /\ extensions[1].load = "loaded"
    /\ pass[i].pc = "exit"
    /\ pass[i].flushed = <<1, 2>>
    /\ received = {}
    /\ sealed = {}

====
